---- MODULE Spec2Model ----
(***************************************************************************)
(* saketracker (src/main.py): the background task that polls two sake      *)
(* shops, diffs each catalog against the previously seen one, posts the    *)
(* new items to a results channel and errors to a debug channel, and       *)
(* sleeps between checks with a per-provider backoff.                      *)
(*                                                                         *)
(* Environment: an HTTP response is any status code of StatusCodes with    *)
(* any page (a catalog, or a page whose layout does not parse); a send to  *)
(* the results channel may raise; sends to the debug channel deliver in    *)
(* Spec and may raise too in SpecOutage.                                   *)
(* channel and debug_channel hold the messages sent since the task last    *)
(* woke up (or started); Wake empties them.                                *)
(***************************************************************************)
EXTENDS Integers, Sequences, FiniteSets, TLC

\* ------------------------------------------------------------------ bounds

\* Largest number of listings on one fetched page.
MaxCatalog == 2

\* The listings a shop may show: (name, price label).
Offers ==
    { <<"name1", "¥100">>, <<"name1", "¥200">>, <<"name2", "¥200">> }

\* The listings a shop may show when the task starts.
OpeningOffers == { <<"name1", "¥100">> }

\* HTTP status codes a shop may answer with.
StatusCodes == {200, 503}

\* Longest product title of a sakedoo variant, in characters.
MaxName == 5

\* The characters of product titles; a string is a sequence of them.
Letters == {"J", "i", "k", "o", "n"}

\* The public titles a variant may carry: "none" and a bottle size.
PublicTitles == {<<"n", "o", "n", "e">>, <<"7", "2", "0">>}

\* Variant prices, in hundredths of a yen.
Prices == {0, 99, 150000, 150099}

\* UTC+9 hours at which the clock may be read.
Hours == {0, 7, 8, 12, 18, 19, 23}

\* ------------------------------------------------------------------- Sake

Sake(provider, name, price_yen) ==
    [provider |-> provider, name |-> name, price_yen |-> price_yen]

\* Sake.__hash__: the md5 of the name, i.e. a function of the name alone.
SakeHash(sake) == sake.name

\* Sake.__eq__ as @dataclass generates it: the tuples of all fields compare.
SakeEq(a, b) ==
    <<a.provider, a.name, a.price_yen>> = <<b.provider, b.name, b.price_yen>>

\* `sake in sakes` for a Python set: same hash bucket, then __eq__.
SakeIn(sake, sakes) ==
    \E other \in sakes : SakeHash(other) = SakeHash(sake) /\ SakeEq(other, sake)

\* A variant of the difference: items compare by their hash (the name) alone.
SetDifferenceByName(new_result, previous_result) ==
    { sake \in new_result :
        ~\E other \in previous_result : SakeHash(other) = SakeHash(sake) }

\* `new_result - previous_result` for Python sets.
SetDifference(new_result, previous_result) ==
    { sake \in new_result : ~SakeIn(sake, previous_result) }

\* ----------------------------------------------------------------- Source

ProviderNames == <<"sake09", "sakedoo">>

Listings(provider_name) ==
    { Sake(provider_name, o[1], o[2]) : o \in Offers }

Catalogs(provider_name) ==
    { c \in SUBSET Listings(provider_name) : Cardinality(c) <= MaxCatalog }

\* What requests.get may give back for a provider's page: a status code and
\* a page that parses to a catalog or does not parse.
Responses(provider_name) ==
    [status_code : StatusCodes, parses : BOOLEAN, sakes : Catalogs(provider_name)]

\* The same when the task starts.
OpeningResponses(provider_name) ==
    { resp \in Responses(provider_name) :
        \A sake \in resp.sakes : <<sake.name, sake.price_yen>> \in OpeningOffers }

Raise(e) == [raised |-> TRUE, e |-> e, value |-> {}]

Return(value) == [raised |-> FALSE, e |-> "", value |-> value]

\* Sake09.get_sakes / Sakedoo.get_sakes: the parsed page, or an exception.
get_sakes(resp) ==
    IF resp.status_code # 200
    THEN Raise(ToString(resp.status_code) \o " occurred.")
    ELSE IF ~resp.parses
    THEN Raise("parse error")
    ELSE Return(resp.sakes)

\* A variant of run: the snapshot is replaced on every successful fetch.
runReplacing(previous_result, fetched) ==
    IF fetched.raised
    THEN [raised |-> TRUE, e |-> fetched.e, diffs |-> {},
          previous_result |-> previous_result]
    ELSE [raised |-> FALSE, e |-> "",
          diffs |-> SetDifference(fetched.value, previous_result),
          previous_result |-> fetched.value]

\* A variant of run: the snapshot is never replaced.
runKeeping(previous_result, fetched) ==
    IF fetched.raised
    THEN [raised |-> TRUE, e |-> fetched.e, diffs |-> {},
          previous_result |-> previous_result]
    ELSE [raised |-> FALSE, e |-> "",
          diffs |-> SetDifference(fetched.value, previous_result),
          previous_result |-> previous_result]

\* Source.run on the outcome of its get_sakes call: what it returns (or
\* raises) and the snapshot it leaves.
run(previous_result, fetched) ==
    IF fetched.raised
    THEN [raised |-> TRUE, e |-> fetched.e, diffs |-> {},
          previous_result |-> previous_result]
    ELSE LET new_result == fetched.value
             diffs == SetDifference(new_result, previous_result)
         IN  IF diffs # {}
             THEN [raised |-> FALSE, e |-> "", diffs |-> diffs,
                   previous_result |-> new_result]
             ELSE [raised |-> FALSE, e |-> "", diffs |-> {},
                   previous_result |-> previous_result]

\* ------------------------------------------------------ my_background_task

\* The strings of at most n characters of Letters.
RECURSIVE Strings(_)
Strings(n) ==
    IF n = 0 THEN {<<>>}
    ELSE LET shorter == Strings(n - 1)
         IN  shorter \cup { Append(t, c) : t \in shorter, c \in Letters }

\* A variant of the shop's page: its name is the product's title, " - " and
\* its public title.
Variants ==
    { [public_title |-> t, name |-> n \o <<" ", "-", " ">> \o t, price |-> p] :
        t \in PublicTitles, n \in Strings(MaxName), p \in Prices }

\* str.rstrip(chars): the characters of chars are taken off the right end
\* of s one by one, as long as the last character of s is one of them.
RECURSIVE rstrip(_, _)
rstrip(s, chars) ==
    IF s # <<>> /\ \E k \in 1..Len(chars) : chars[k] = s[Len(s)]
    THEN rstrip(SubSeq(s, 1, Len(s) - 1), chars)
    ELSE s

\* Line 114: f"¥{variant['price'] // 100}".
PriceYen(price) == "¥" \o ToString(price \div 100)

\* Lines 109-117: what one variant adds to the result of Sakedoo.get_sakes.
Added(provider_name, variant) ==
    IF variant.public_title = <<"n", "o", "n", "e">>
    THEN {Sake(provider_name,
               rstrip(variant.name, <<" ", "-", " ", "n", "o", "n", "e">>),
               PriceYen(variant.price))}
    ELSE {}

VARIABLES
    pc,                        \* where my_background_task stands
    closed,                    \* client.is_closed()
    debug_up,                  \* debug_channel.send delivers (else it raises)
    providers,                 \* the list built at line 132 (<<>> before)
    i,                         \* index of `provider` in the for loop
    previous_result,           \* provider name -> Source.previous_result
    diffs,                     \* the task's local `diffs`
    provider_to_sleep_seconds, \* provider name -> <<active, quiet>>
    channel,                   \* messages sent to the results channel
    debug_channel,             \* messages sent to the debug channel
    asleep,                    \* the asyncio.sleep in progress
    latest,                    \* history: provider name -> its latest
                               \* get_sakes call and how that step ended
    baseline                   \* history, for the providers it is kept for:
                               \* provider name -> the catalog of its
                               \* construction, until the provider's first
,                              \* results message
    since,                     \* the provider checked last and the sleeps since (history)
    variants,                  \* variants of a sakedoo page still to be read
    result,                    \* the set that Sakedoo.get_sakes builds from them
    flap,                      \* what became of each stored item after it left the page (history)
    lost                       \* returned items whose message was never sent (history)

vars ==
    <<pc, closed, debug_up, providers, i, previous_result, diffs,
      provider_to_sleep_seconds, channel, debug_channel, asleep, latest,
      baseline, since, variants, result, flap, lost>>

\* Line 134.
StartMessage == [kind |-> "start", text |-> "Start."]

\* Line 136.
ExceptionMessage(e) == [kind |-> "exception", text |-> e]

\* Lines 152-153: "[provider] name (price)".
FoundMessage(provider_name, sake) ==
    [kind |-> "found", provider |-> provider_name,
     name |-> sake.name, price_yen |-> sake.price_yen]

\* Lines 159-160: "[provider] e".
ErrorMessage(provider_name, e) ==
    [kind |-> "error", provider |-> provider_name, text |-> e]

Awake == [hour |-> -1, seconds |-> 0]

Reported == [reported |-> TRUE, sakes |-> {}]

Kept(sakes) == [reported |-> FALSE, sakes |-> sakes]

\* The record of a get_sakes call made by Source.__init__.
Constructed(called) ==
    [by |-> "__init__", raised |-> called.raised, e |-> called.e,
     value |-> called.value, new |-> FALSE, failed |-> called.raised,
     again |-> "no"]

\* The record of a get_sakes call made by Source.run: `new` says that run
\* returned a non-empty set, `failed` that the step ended in the except
\* clause, `again` that the call before it was a run that fetched the same
\* catalog (and whether that one returned new items). The exception text
\* of a run is in the debug channel and is not kept here.
Ran(before, called, new, failed) ==
    [by |-> "run", raised |-> called.raised, e |-> "",
     value |-> called.value, new |-> new, failed |-> failed,
     again |-> IF before.by = "run" /\ ~before.raised /\ ~called.raised
                  /\ before.value = called.value
               THEN IF before.new THEN "after new" ELSE "after none"
               ELSE "no"]

\* The history of one item across a run that fetched `fetched` against the
\* snapshot `stored` and returned `returned`: "no" while the item is listed
\* or was never stored; from the run in which a stored item is missing from
\* the page, "quiet" as long as every run since returned nothing and
\* "replaced" once one of them returned items; "back" after the run that
\* found it listed again, until the task wakes up from the sleep after it.
Absence(status, sake, stored, fetched, returned) ==
    IF sake \in fetched
    THEN IF status \in {"quiet", "replaced"} THEN "back" ELSE "no"
    ELSE IF status \in {"no", "back"} /\ sake \notin stored THEN "no"
    ELSE IF status = "replaced" \/ returned # {} THEN "replaced"
    ELSE "quiet"

\* The items of a walk of `for sake in diffs` that were not sent when the
\* send at position failAt raised (none when failAt is 0).
Unsent(order, failAt) ==
    IF failAt = 0 THEN {} ELSE { order[k] : k \in failAt..Len(order) }

\* The orders in which `for sake in diffs` may walk a set.
Orders(sakes) ==
    { order \in [1..Cardinality(sakes) -> sakes] :
        \A m, n \in 1..Cardinality(sakes) : order[m] = order[n] => m = n }

Init ==
    /\ pc = "start"
    /\ closed = FALSE
    /\ debug_up = TRUE
    /\ providers = <<>>
    /\ i = 0
    /\ previous_result = <<>>
    /\ diffs = {}
    /\ provider_to_sleep_seconds = <<>>
    /\ channel = <<>>
    /\ debug_channel = <<>>
    /\ asleep = Awake
    /\ latest = <<>>
    /\ baseline = <<>>
    /\ since = [checked |-> "", sleeps |-> 0]
    /\ variants = <<>>
    /\ result = {}
    /\ flap = <<>>
    /\ lost = <<>>

\* A variant of the try block: it says nothing when both sources are built.
ConstructSilently(sake09, sakedoo) ==
    IF sake09.raised
    THEN [started |-> FALSE, sent |-> <<ExceptionMessage(sake09.e)>>]
    ELSE IF sakedoo.raised
    THEN [started |-> FALSE, sent |-> <<ExceptionMessage(sakedoo.e)>>]
    ELSE [started |-> TRUE, sent |-> <<>>]

\* A variant of the try block: only a failing Sake09() stops the task.
ConstructIgnoringSecond(sake09, sakedoo) ==
    IF sake09.raised
    THEN [started |-> FALSE, sent |-> <<ExceptionMessage(sake09.e)>>]
    ELSE [started |-> TRUE, sent |-> <<StartMessage>>]

\* Lines 131-137: what the try block makes of the two constructions.
\* Sake09() runs first; Sakedoo() only if Sake09() did not raise.
Construct(sake09, sakedoo) ==
    IF sake09.raised
    THEN [started |-> FALSE, sent |-> <<ExceptionMessage(sake09.e)>>]
    ELSE IF sakedoo.raised
    THEN [started |-> FALSE, sent |-> <<ExceptionMessage(sakedoo.e)>>]
    ELSE [started |-> TRUE, sent |-> <<StartMessage>>]

\* Lines 139-142.
InitialSeconds == <<5, 300>>

\* Lines 131-142. A send to the debug channel that raises at line 134 is
\* caught at line 135, and the send of line 136 then raises out of the task.
Start ==
    /\ pc = "start"
    /\ \E r1 \in OpeningResponses(ProviderNames[1]),
          r2 \in OpeningResponses(ProviderNames[2]) :
         LET first == get_sakes(r1)
             second == get_sakes(r2)
             try == Construct(first, second)
             called == ProviderNames[1] :> first @@ ProviderNames[2] :> second
             made == { ProviderNames[n] : n \in 1..(IF first.raised THEN 1 ELSE 2) }
         IN  /\ debug_channel' = IF debug_up THEN debug_channel \o try.sent
                                  ELSE debug_channel
             /\ latest' = [p \in made |-> Constructed(called[p])]
             /\ IF try.started /\ debug_up
                THEN /\ providers' = ProviderNames
                     /\ previous_result' = [p \in made |-> called[p].value]
                     /\ baseline' = [p \in DOMAIN baseline |-> Kept(called[p].value)]
                     /\ provider_to_sleep_seconds' = [p \in made |-> InitialSeconds]
                     /\ pc' = "while"
                ELSE /\ pc' = IF debug_up THEN "returned" ELSE "raised"
                     /\ UNCHANGED <<providers, previous_result, baseline,
                                    provider_to_sleep_seconds>>
    /\ UNCHANGED <<lost, flap, result, variants, since, closed, debug_up, i, diffs, channel, asleep>>

\* Line 144.
While ==
    /\ pc = "while"
    /\ IF closed
       THEN pc' = "done" /\ i' = i
       ELSE pc' = "for" /\ i' = 1
    /\ UNCHANGED <<lost, flap, result, variants, since, closed, debug_up, providers, previous_result, diffs,
                   provider_to_sleep_seconds, channel, debug_channel, asleep,
                   latest, baseline>>

\* A variant of the notification loop: it stops after the first item.
NotifyFirstOnly(provider_name, order, failAt) ==
    LET sent == IF failAt = 0 THEN Len(order) ELSE failAt - 1
    IN  [m \in 1..(IF sent > 1 THEN 1 ELSE sent) |->
            FoundMessage(provider_name, order[m])]

\* Lines 149-154: the messages that went out before send number failAt
\* raised (failAt = 0: no send raised).
Notify(provider_name, order, failAt) ==
    LET sent == IF failAt = 0 THEN Len(order) ELSE failAt - 1
    IN  [m \in 1..sent |-> FoundMessage(provider_name, order[m])]

\* Line 156: the try block ended normally.
Succeeded(provider_name) ==
    [debug |-> <<>>, seconds |-> <<5, 300>>]

\* Variants of the except clause: it reports nothing; it keeps the pace.
FailedSilently(provider_name, e) ==
    [debug |-> <<>>, seconds |-> <<300, 3600>>]

FailedKeepingPace(provider_name, e) ==
    [debug |-> <<ErrorMessage(provider_name, e)>>, seconds |-> <<5, 300>>]

\* Lines 157-163: the except clause.
Failed(provider_name, e) ==
    [debug |-> <<ErrorMessage(provider_name, e)>>, seconds |-> <<300, 3600>>]

\* A variant of the attribute: previous_result belongs to the class, so
\* that the sources share it.
StoreShared(results, provider_name, value) ==
    [p \in DOMAIN results |-> value]

\* Lines 33 and 43: previous_result is an attribute of the instance; results
\* maps each provider's name to the snapshot its instance holds.
Store(results, provider_name, value) ==
    [results EXCEPT ![provider_name] = value]

\* A variant of the try statement: a send that raises goes unnoticed.
TryExceptFetchOnly(provider_name, raised, e, failAt) ==
    IF raised THEN Failed(provider_name, e) ELSE Succeeded(provider_name)

\* Lines 146-157: `except Exception` takes the step to the except clause
\* when run raised and when a send to the results channel raised (failAt is
\* the position of that send, 0 when every send went through).
TryExcept(provider_name, raised, e, failAt) ==
    IF raised THEN Failed(provider_name, e)
    ELSE IF failAt # 0 THEN Failed(provider_name, "send failed")
    ELSE Succeeded(provider_name)

\* Lines 146-163 for provider = providers[i]. The send of line 158 is
\* outside any try block: when it raises, the exception leaves the task.
Step ==
    /\ pc = "for"
    /\ LET p == providers[i] IN
       \E resp \in Responses(p) :
         LET called == get_sakes(resp)
             r == run(previous_result[p], called)
         IN  /\ previous_result' = Store(previous_result, p, r.previous_result)
             /\ diffs' = IF r.raised THEN diffs ELSE r.diffs
             /\ \E order \in Orders(r.diffs), failAt \in 0..Cardinality(r.diffs) :
                  LET out == Notify(p, order, failAt)
                      end == TryExcept(p, r.raised, r.e, failAt)
                      handled == debug_up \/ end.debug = <<>>
                  IN  /\ channel' = channel \o out
                      /\ debug_channel' = IF handled THEN debug_channel \o end.debug
                                          ELSE debug_channel
                      /\ provider_to_sleep_seconds' =
                             IF handled
                             THEN [provider_to_sleep_seconds EXCEPT ![p] = end.seconds]
                             ELSE provider_to_sleep_seconds
                      /\ pc' = IF handled THEN "sleep" ELSE "raised"
                      /\ latest' = [latest EXCEPT
                                      ![p] = Ran(@, called, r.diffs # {},
                                                 r.raised \/ failAt # 0)]
                      /\ baseline' = IF p \in DOMAIN baseline /\ out # <<>>
                                     THEN [baseline EXCEPT ![p] = Reported]
                                     ELSE baseline
                      /\ lost' = IF p \in DOMAIN lost /\ ~r.raised
                                 THEN [lost EXCEPT ![p] =
                                         (@ \cap called.value)
                                            \cup Unsent(order, failAt)]
                                 ELSE lost
    /\ since' = [checked |-> providers[i], sleeps |-> 0]
    /\ flap' = LET p == providers[i]
                   called == latest'[p]
               IN  IF p \in DOMAIN flap /\ ~called.raised
                   THEN [flap EXCEPT ![p] =
                           [sake \in DOMAIN @ |->
                              Absence(@[sake], sake, previous_result[p],
                                      called.value, diffs')]]
                   ELSE flap
    /\ UNCHANGED <<result, variants, closed, debug_up, providers, i, asleep>>

\* A variant of the gate: 18 o'clock already counts as quiet.
SleepSecondsQuietAt18(seconds, hour) ==
    IF hour < 8 \/ hour >= 18 THEN seconds[2] ELSE seconds[1]

\* Lines 167-174: the length of the sleep.
SleepSeconds(seconds, hour) ==
    IF hour < 8 \/ hour > 18 THEN seconds[2] ELSE seconds[1]

\* Lines 165-174: read the clock and go to sleep.
Sleep ==
    /\ pc = "sleep"
    /\ \E hour \in Hours :
         asleep' = [hour |-> hour,
                    seconds |-> SleepSeconds(provider_to_sleep_seconds[providers[i]], hour)]
    /\ pc' = "asleep"
    /\ since' = [since EXCEPT !.sleeps = @ + 1]
    /\ UNCHANGED <<lost, flap, result, variants, closed, debug_up, providers, i, previous_result, diffs,
                   provider_to_sleep_seconds, channel, debug_channel, latest,
                   baseline>>

\* A variant of the for statement: it ends after its first provider.
ForFirstOnly(index, n) ==
    [pc |-> "while", i |-> index]

\* Line 145: the for statement takes the next provider of the list, or ends
\* and gives way to the while test, after the provider at index of n.
For(index, n) ==
    IF index < n THEN [pc |-> "for", i |-> index + 1]
    ELSE [pc |-> "while", i |-> index]

\* asyncio.sleep returns: the for loop moves on, or the round is over.
Wake ==
    /\ pc = "asleep"
    /\ asleep' = Awake
    /\ channel' = <<>>
    /\ debug_channel' = <<>>
    /\ flap' = [p \in DOMAIN flap |->
                 [sake \in DOMAIN flap[p] |->
                    IF flap[p][sake] = "back" THEN "no" ELSE flap[p][sake]]]
    /\ pc' = For(i, Len(providers)).pc
    /\ i' = For(i, Len(providers)).i
    /\ UNCHANGED <<lost, result, variants, since, closed, debug_up, providers, previous_result, diffs,
                   provider_to_sleep_seconds, latest, baseline>>

\* The discord client is closed from outside. The task reads is_closed()
\* only at line 144, so a close at any other moment is seen as one
\* that happens just before that test.
Close ==
    /\ pc = "while"
    /\ ~closed
    /\ closed' = TRUE
    /\ UNCHANGED <<lost, flap, result, variants, since, pc, debug_up, providers, i, previous_result, diffs,
                   provider_to_sleep_seconds, channel, debug_channel, asleep,
                   latest, baseline>>

\* The debug channel stops or resumes taking messages (an outage, a revoked
\* permission): debug_channel.send raises while it is down.
Outage ==
    /\ debug_up' = ~debug_up
    /\ UNCHANGED <<lost, flap, result, variants, since, pc, closed, providers, i, previous_result, diffs,
                   provider_to_sleep_seconds, channel, debug_channel, asleep,
                   latest, baseline>>

Next == Start \/ While \/ Step \/ Sleep \/ Wake \/ Close

Spec == Init /\ [][Next]_vars

\* The same task with the baseline history kept for both providers.
InitBaseline ==
    /\ pc = "start"
    /\ closed = FALSE
    /\ debug_up = TRUE
    /\ providers = <<>>
    /\ i = 0
    /\ previous_result = <<>>
    /\ diffs = {}
    /\ provider_to_sleep_seconds = <<>>
    /\ channel = <<>>
    /\ debug_channel = <<>>
    /\ asleep = Awake
    /\ latest = <<>>
    /\ baseline = [p \in {ProviderNames[1], ProviderNames[2]} |-> Kept({})]
    /\ since = [checked |-> "", sleeps |-> 0]
    /\ variants = <<>>
    /\ result = {}
    /\ flap = <<>>
    /\ lost = <<>>

SpecBaseline == InitBaseline /\ [][Next]_vars

\* The same task when sends to the debug channel may raise as well.
NextOutage == Next \/ Outage

SpecOutage == Init /\ [][NextOutage]_vars

\* Sakedoo.get_sakes on a page of one variant, before the loop of line 107.
InitSakedoo ==
    /\ pc = "start"
    /\ closed = FALSE
    /\ debug_up = TRUE
    /\ providers = <<>>
    /\ i = 0
    /\ previous_result = <<>>
    /\ diffs = {}
    /\ provider_to_sleep_seconds = <<>>
    /\ channel = <<>>
    /\ debug_channel = <<>>
    /\ asleep = Awake
    /\ latest = <<>>
    /\ baseline = <<>>
    /\ since = [checked |-> "", sleeps |-> 0]
    /\ variants \in { <<v>> : v \in Variants }
    /\ result = {}
    /\ flap = <<>>
    /\ lost = <<>>

\* Lines 108-117: one turn of `for variant in product["variants"]`.
AddVariant ==
    /\ variants # <<>>
    /\ result' = result \cup Added(ProviderNames[2], Head(variants))
    /\ variants' = Tail(variants)
    /\ UNCHANGED <<lost, flap, pc, closed, debug_up, providers, i, previous_result, diffs,
                   provider_to_sleep_seconds, channel, debug_channel, asleep,
                   latest, baseline, since>>

SpecSakedoo == InitSakedoo /\ [][AddVariant]_vars

\* The task with the history of absences kept for every listing.
InitFlapping ==
    /\ pc = "start"
    /\ closed = FALSE
    /\ debug_up = TRUE
    /\ providers = <<>>
    /\ i = 0
    /\ previous_result = <<>>
    /\ diffs = {}
    /\ provider_to_sleep_seconds = <<>>
    /\ channel = <<>>
    /\ debug_channel = <<>>
    /\ asleep = Awake
    /\ latest = <<>>
    /\ baseline = <<>>
    /\ since = [checked |-> "", sleeps |-> 0]
    /\ variants = <<>>
    /\ result = {}
    /\ flap = [p \in {ProviderNames[1], ProviderNames[2]} |->
                 [sake \in Listings(p) |-> "no"]]
    /\ lost = <<>>

SpecFlapping == InitFlapping /\ [][Next]_vars

\* The task with the history of the items that were returned and not sent,
\* each kept for as long as every page fetched since lists it.
InitLost ==
    /\ pc = "start"
    /\ closed = FALSE
    /\ debug_up = TRUE
    /\ providers = <<>>
    /\ i = 0
    /\ previous_result = <<>>
    /\ diffs = {}
    /\ provider_to_sleep_seconds = <<>>
    /\ channel = <<>>
    /\ debug_channel = <<>>
    /\ asleep = Awake
    /\ latest = <<>>
    /\ baseline = <<>>
    /\ since = [checked |-> "", sleeps |-> 0]
    /\ variants = <<>>
    /\ result = {}
    /\ flap = <<>>
    /\ lost = [p \in {ProviderNames[1], ProviderNames[2]} |-> {}]

SpecLost == InitLost /\ [][Next]_vars

\* ------------------------------------------------------------- properties

\* The step of lines 146-163 is taken for provider p.
Stepping(p) == pc = "for" /\ pc' = "sleep" /\ providers[i] = p

\* The provider whose step has just been taken.
Current == providers[i]

Stepped == pc \in {"sleep", "asleep"}

\* C1: a successful run returns, and the step notifies, no item whose name
\* is the name of an item of the stored snapshot (equality by name only).
C1_SameNameIsNotNew ==
    [][\A p \in DOMAIN previous_result :
         (Stepping(p) /\ ~latest'[p].raised) =>
            /\ \A sake \in diffs' :
                 \A stored \in previous_result[p] : stored.name # sake.name
            /\ \A k \in 1..Len(channel') :
                 \A stored \in previous_result[p] : stored.name # channel'[k].name
      ]_vars

C3_SnapshotIsLatestFetch ==
    \A p \in DOMAIN latest :
        (latest[p].by = "run" /\ ~latest[p].raised) =>
            previous_result[p] = latest[p].value

\* C3 amended: a successful run that returns new items leaves the fetched
\* catalog as the snapshot; one that returns nothing leaves the snapshot as
\* it was.
C3_SnapshotReplacedOnNewItems ==
    [][\A p \in DOMAIN previous_result :
         (Stepping(p) /\ ~latest'[p].raised) =>
            previous_result'[p] =
                IF diffs' # {} THEN latest'[p].value ELSE previous_result[p]
      ]_vars

\* C3 witness: a successful run returned nothing and the snapshot differs
\* from what it fetched.
C3_Witness ==
    \E p \in DOMAIN latest :
        /\ latest[p].by = "run"
        /\ ~latest[p].raised
        /\ ~latest[p].new
        /\ previous_result[p] # latest[p].value

\* C4: a run that fetches the catalog the run before it fetched returns the
\* empty set and notifies nothing.
C4_SecondRunReturnsNothing ==
    /\ \A p \in DOMAIN latest : latest[p].again # "no" => ~latest[p].new
    /\ (Stepped /\ latest[Current].again # "no") => diffs = {} /\ channel = <<>>

\* C4 witness: the same catalog was fetched twice in succession and the
\* first of the two runs returned new items.
C4_Witness ==
    /\ pc = "sleep"
    /\ latest[Current].again = "after new"
    /\ latest[Current].value # {}

\* C5: a step whose fetch fails leaves the provider's snapshot as it was,
\* sends exactly one error message to the debug channel and none to the
\* results channel.
C5_FetchFailure ==
    [][\A p \in DOMAIN previous_result :
         (Stepping(p) /\ latest'[p].raised) =>
            /\ previous_result'[p] = previous_result[p]
            /\ Len(debug_channel') = Len(debug_channel) + 1
            /\ SubSeq(debug_channel', 1, Len(debug_channel)) = debug_channel
            /\ debug_channel'[Len(debug_channel')].kind = "error"
            /\ debug_channel'[Len(debug_channel')].provider = p
            /\ channel' = channel
            /\ channel' = <<>>
      ]_vars

\* C5 witness: a fetch has just failed for a provider that holds a
\* non-empty snapshot.
C5_Witness ==
    /\ pc = "sleep"
    /\ latest[Current].by = "run"
    /\ latest[Current].raised
    /\ previous_result[Current] # {}
    /\ \E k \in 1..Len(debug_channel) : debug_channel[k].kind = "error"

\* C6: every provider's pair is (5, 300) from construction until its first
\* step, (300, 3600) after a step of it that failed and (5, 300) after a
\* step of it that succeeded.
C6_Backoff ==
    \A p \in DOMAIN provider_to_sleep_seconds :
        /\ provider_to_sleep_seconds[p] \in { <<5, 300>>, <<300, 3600>> }
        /\ provider_to_sleep_seconds[p] =
               IF latest[p].by = "run" /\ latest[p].failed
               THEN <<300, 3600>>
               ELSE <<5, 300>>

\* C6 witness: one provider's latest step succeeded, the other's failed.
C6_Witness ==
    \E p, q \in DOMAIN provider_to_sleep_seconds :
        /\ latest[p].by = "run" /\ ~latest[p].failed
        /\ provider_to_sleep_seconds[p] = <<5, 300>>
        /\ latest[q].by = "run" /\ latest[q].failed
        /\ provider_to_sleep_seconds[q] = <<300, 3600>>

\* C7: the sleep after a step lasts the quiet duration of the pair the step
\* has just set when the hour is below 8 or above 18, and the active
\* duration otherwise; it is 5, 300 or 3600 seconds long.
C7_Gating ==
    pc = "asleep" =>
        LET hour == asleep.hour
            failed == latest[Current].failed
            active == IF failed THEN 300 ELSE 5
            quiet == IF failed THEN 3600 ELSE 300
        IN  /\ provider_to_sleep_seconds[Current] = <<active, quiet>>
            /\ (hour < 8 \/ hour > 18) => asleep.seconds = quiet
            /\ (hour >= 8 /\ hour <= 18) => asleep.seconds = active
            /\ hour \in {7, 19} => asleep.seconds = quiet
            /\ hour \in {8, 12, 18} => asleep.seconds = active
            /\ asleep.seconds \in {5, 300, 3600}

\* C7 witness: at 18 o'clock, after a failed step, the task sleeps the
\* active duration of the widened pair.
C7_Witness ==
    /\ pc = "asleep"
    /\ asleep.hour = 18
    /\ latest[Current].failed
    /\ asleep.seconds = 300

\* C8: construction sends no results message and makes the fetched catalog
\* the snapshot; the first results messages a provider causes are for
\* items that are not in the catalog of its construction.
C8_FirstMessagesAreNewToBaseline ==
    /\ [](\A p \in DOMAIN latest :
            (\A q \in DOMAIN latest : latest[q].by = "__init__" /\ ~latest[q].raised)
                => channel = <<>> /\ (pc # "returned" => previous_result[p] = latest[p].value))
    /\ [][\A p \in DOMAIN baseline :
            (Stepping(p) /\ ~baseline[p].reported) =>
               \A k \in 1..Len(channel') :
                  \A sake \in baseline[p].sakes :
                     <<sake.name, sake.price_yen>> #
                        <<channel'[k].name, channel'[k].price_yen>>
         ]_vars

\* C9: a step that succeeds sends one results message for each item of
\* the diff and no others, and nothing to the debug channel.
C9_OneMessagePerItem ==
    [][\A p \in DOMAIN previous_result :
         (Stepping(p) /\ ~latest'[p].failed) =>
            /\ Len(channel') = Cardinality(diffs')
            /\ { channel'[k] : k \in 1..Len(channel') } =
                   { [kind |-> "found", provider |-> p, name |-> sake.name,
                      price_yen |-> sake.price_yen] : sake \in diffs' }
            /\ debug_channel' = debug_channel
            /\ diffs' = {} => channel' = <<>>
      ]_vars

\* C9 witness: a step has succeeded with two new items and two messages.
C9_Witness ==
    /\ pc = "sleep"
    /\ ~latest[Current].failed
    /\ Cardinality(diffs) = 2
    /\ Len(channel) = 2
    /\ channel[1] # channel[2]

\* C10: once the construction of a source has failed, the debug channel
\* holds the exception text and nothing else, the task has returned, and
\* no results message was sent and no run was made.
C10_ConstructionFailureIsFatal ==
    \A p \in DOMAIN latest :
        (latest[p].by = "__init__" /\ latest[p].raised) =>
            /\ pc = "returned"
            /\ debug_channel = <<[kind |-> "exception", text |-> latest[p].e]>>
            /\ channel = <<>>
            /\ providers = <<>>
            /\ i = 0
            /\ asleep.seconds = 0
            /\ \A q \in DOMAIN latest : latest[q].by = "__init__"

\* C10 witness: Sake09() was built and Sakedoo() raised.
C10_Witness ==
    /\ DOMAIN latest = {"sake09", "sakedoo"}
    /\ ~latest["sake09"].raised
    /\ latest["sakedoo"].raised
    /\ latest["sakedoo"].by = "__init__"

\* C11: once the loop has started no error ends it: the task stays in the
\* loop, whatever fails in a step, and leaves it only when the client is
\* closed.
C11_NoErrorIsFatal ==
    providers # <<>> =>
        /\ pc \in {"while", "for", "sleep", "asleep", "done"}
        /\ pc = "done" => closed

\* C12: a step whose fetch succeeds and in which a send to the results
\* channel raises ends as a step whose fetch fails does: exactly one error
\* message of that provider is sent to the debug channel and the provider's
\* pair becomes (300, 3600).
C12_OtherExceptionHandledAlike ==
    [][\A p \in DOMAIN previous_result :
         (Stepping(p) /\ ~latest'[p].raised /\ latest'[p].failed) =>
            /\ Len(debug_channel') = Len(debug_channel) + 1
            /\ SubSeq(debug_channel', 1, Len(debug_channel)) = debug_channel
            /\ debug_channel'[Len(debug_channel')].kind = "error"
            /\ debug_channel'[Len(debug_channel')].provider = p
            /\ provider_to_sleep_seconds'[p] = <<300, 3600>>
      ]_vars

\* C12 witness: the second send of a step has just raised, after the first
\* one went through, and the step has been reported as an error.
C12_Witness ==
    /\ pc = "sleep"
    /\ latest[Current].by = "run"
    /\ ~latest[Current].raised
    /\ latest[Current].failed
    /\ Cardinality(diffs) = 2
    /\ Len(channel) = 1
    /\ debug_channel # <<>>
    /\ debug_channel[Len(debug_channel)].kind = "error"
    /\ provider_to_sleep_seconds[Current] = <<300, 3600>>

\* C13: the first check is sake09's; every later check is of the provider
\* that was not checked last, and exactly one sleep lies between it and the
\* check before it; a check ends before anything else of the task happens,
\* and the next thing that happens is the sleep.
C13_OneAtATimeInOrder ==
    [][/\ \A p \in DOMAIN previous_result :
            Stepping(p) =>
               /\ since.checked = "" => p = ProviderNames[1]
               /\ since.checked = ProviderNames[1] => p = ProviderNames[2]
               /\ since.checked = ProviderNames[2] => p = ProviderNames[1]
               /\ since.checked # "" => since.sleeps = 1
               /\ since'.checked = p
               /\ since'.sleeps = 0
       /\ (pc \in {"while", "for"} /\ since.checked # "") => since.sleeps = 1
       /\ pc = "sleep" => (pc' = "asleep" /\ since'.sleeps = 1)
      ]_vars

\* C13 witness: sake09 is being checked for the second time, after sakedoo
\* and one sleep.
C13_Witness ==
    /\ pc = "sleep"
    /\ Current = ProviderNames[1]
    /\ latest[ProviderNames[1]].by = "run"
    /\ latest[ProviderNames[2]].by = "run"
    /\ since = [checked |-> ProviderNames[1], sleeps |-> 0]

\* C14: a variant whose public title is not "none" adds nothing; a variant
\* whose public title is "none", whose name is N followed by " - none" and
\* whose price is p adds exactly the item of name N and of price label "¥"
\* followed by p div 100, whatever the last characters of N are.
C14_SakedooItem ==
    [][(variants # <<>> /\ variants' = Tail(variants)) =>
          LET variant == Head(variants)
              none == <<"n", "o", "n", "e">>
              suffix == <<" ", "-", " ">> \o none
              N == SubSeq(variant.name, 1, Len(variant.name) - Len(suffix))
          IN  /\ variant.public_title # none => result' = result
              /\ (variant.public_title = none /\ variant.name = N \o suffix) =>
                     result' = result \cup
                        {Sake(ProviderNames[2], N,
                              "¥" \o ToString(variant.price \div 100))}
      ]_vars

\* The number of startup messages in a sequence of messages.
Starts(messages) ==
    Cardinality({ k \in 1..Len(messages) : messages[k].kind = "start" })

\* C15: when both sources are built, the debug channel gets the startup
\* message and nothing else, and no run has been made and no results
\* message sent by then; no later step of the task sends a startup message,
\* so the one that was sent precedes every message of the loop.
C15_OneStartupMessageFirst ==
    /\ [][(pc = "start" /\ pc' = "while") =>
             /\ debug_channel' = <<StartMessage>>
             /\ channel' = <<>>
             /\ \A p \in DOMAIN latest' :
                   latest'[p].by = "__init__" /\ ~latest'[p].raised
             /\ since' = [checked |-> "", sleeps |-> 0]
         ]_vars
    /\ [][Starts(debug_channel') > Starts(debug_channel) => pc = "start"]_vars
    /\ [](\A k \in 1..Len(debug_channel) :
             debug_channel[k].kind = "start" => k = 1)

\* C15 witness: the first check of the loop has just failed, and its error
\* message follows the startup message.
C15_Witness ==
    /\ pc = "sleep"
    /\ since.checked = ProviderNames[1]
    /\ latest[ProviderNames[2]].by = "__init__"
    /\ Len(debug_channel) = 2
    /\ debug_channel[1] = StartMessage
    /\ debug_channel[2].kind = "error"

\* C16: a step of one provider, whether it succeeds or fails, leaves the
\* other provider's snapshot and pair as they were; and once the sources are
\* built a provider's snapshot changes only in a step of that provider in
\* which run did not raise.
C16_Isolation ==
    [][\A p \in DOMAIN previous_result : \A q \in DOMAIN previous_result :
         /\ (Stepping(p) /\ q # p) =>
                /\ previous_result'[q] = previous_result[q]
                /\ provider_to_sleep_seconds'[q] = provider_to_sleep_seconds[q]
         /\ previous_result'[q] # previous_result[q] =>
                (Stepping(q) /\ ~latest'[q].raised)
      ]_vars

\* C16 witness: a step of one provider has just replaced its snapshot and
\* set its pair to (5, 300), while the other provider holds a non-empty
\* snapshot and the pair (300, 3600).
C16_Witness ==
    /\ pc = "sleep"
    /\ latest[Current].by = "run"
    /\ latest[Current].new
    /\ ~latest[Current].failed
    /\ previous_result[Current] = latest[Current].value
    /\ provider_to_sleep_seconds[Current] = <<5, 300>>
    /\ \E q \in DOMAIN previous_result :
         /\ q # Current
         /\ previous_result[q] # {}
         /\ provider_to_sleep_seconds[q] = <<300, 3600>>

\* C17: when a run fetches a page that lists again an item that was stored
\* and then missing from the page, the run returns the item if and only if
\* some run during its absence returned items; an item whose absence saw
\* only runs that returned nothing is still in the snapshot.
C17_Flapping ==
    /\ [][\A p \in DOMAIN flap : \A sake \in DOMAIN flap[p] :
            (Stepping(p) /\ ~latest'[p].raised /\ sake \in latest'[p].value
               /\ flap[p][sake] \in {"quiet", "replaced"}) =>
                  /\ sake \in diffs' <=> flap[p][sake] = "replaced"
                  /\ flap[p][sake] = "quiet" => sake \in previous_result[p]
                  /\ flap'[p][sake] = "back"
         ]_vars
    /\ [](\A p \in DOMAIN flap : \A sake \in DOMAIN flap[p] :
            /\ flap[p][sake] = "quiet" => sake \in previous_result[p]
            /\ flap[p][sake] = "replaced" => sake \notin previous_result[p])

\* C17 witness: an item whose absence saw only runs that returned nothing
\* is listed again, and the run that has just fetched it returned other
\* items but not this one.
C17_Witness ==
    /\ pc = "sleep"
    /\ Current \in DOMAIN flap
    /\ ~latest[Current].raised
    /\ diffs # {}
    /\ \E sake \in latest[Current].value :
         /\ flap[Current][sake] = "back"
         /\ sake \notin diffs

\* C18: a step in which run returned items and a send raised has replaced
\* the snapshot by the fetched catalog all the same, and ends as a failure
\* (one error message to the debug channel, pair (300, 3600)); the items it
\* left unsent are in the snapshot, and as long as the pages fetched list
\* them no later run returns them and no later message names them.
C18_LostNotification ==
    /\ [][\A p \in DOMAIN lost :
            Stepping(p) =>
               /\ (~latest'[p].raised /\ latest'[p].failed) =>
                      /\ diffs' # {}
                      /\ previous_result'[p] = latest'[p].value
                      /\ previous_result'[p] # previous_result[p]
                      /\ lost'[p] \cap diffs' # {}
                      /\ Len(debug_channel') = Len(debug_channel) + 1
                      /\ debug_channel'[Len(debug_channel')].kind = "error"
                      /\ provider_to_sleep_seconds'[p] = <<300, 3600>>
               /\ ~latest'[p].raised =>
                      /\ diffs' \cap lost[p] = {}
                      /\ \A sake \in lost[p] \cap latest'[p].value :
                            \A k \in 1..Len(channel') :
                               channel'[k] # FoundMessage(p, sake)
         ]_vars
    /\ [](\A p \in DOMAIN lost \cap DOMAIN previous_result :
             lost[p] \subseteq previous_result[p])

\* C18 witness: an item that was returned and left unsent in an earlier step
\* is on the page that the step just taken fetched, and that step returned
\* and sent another item.
C18_Witness ==
    /\ pc = "sleep"
    /\ Current \in DOMAIN lost
    /\ ~latest[Current].raised
    /\ ~latest[Current].failed
    /\ diffs # {}
    /\ channel # <<>>
    /\ \E sake \in lost[Current] : sake \in latest[Current].value /\ sake \notin diffs

====
